---- MODULE Spec2Model ----
(***************************************************************************)
(* Model of webserver.py: the MarkItDown conversion web server.            *)
(*                                                                         *)
(* One request is handled at a time (the handlers share no mutable state). *)
(* A request runs through the handler of its endpoint (convert_file or     *)
(* convert_text), the external converter md.convert_stream, and            *)
(* resize_base64_images, whose re.sub scan and shrink loop are modelled    *)
(* step by step.                                                           *)
(*                                                                         *)
(* Text is a sequence of tokens.  A token is a record [k, len, w, h]:      *)
(*   k    the characters the token stands for ("![", "](data:image/",      *)
(*        ";base64,", ")", "]", ";", a format tag, plain text "x"), or     *)
(*        "b64" for a well-formed base64 string, "b64bad" for a base64     *)
(*        string with incorrect padding;                                   *)
(*   len  for k = "b64": the number of bytes the string decodes to;        *)
(*   w, h for k = "b64": the dimensions of the image those bytes hold,     *)
(*        0 by 0 when the bytes are not an image.                          *)
(***************************************************************************)
EXTENDS Integers, Sequences, FiniteSets, TLC

\* Number of fragments a converted document is assembled from.
MaxPieces == 2

\* Bytes per KB in the size computations (len(...) / 1024).
KB == 1024

\* range(max_iterations) of the shrink loop.
max_iterations == 5

\* The default of max_size_kb in both handlers.
DefaultMaxSizeKB == 200

\* scale_factor starts at 0.8 = 4/5 and is multiplied by 0.8 after a miss.
ScaleNum == 4

ScaleDen == 5

----------------------------------------------------------------------------
(* Tokens *)

T(k) == [k |-> k, len |-> 0, w |-> 0, h |-> 0]

LitOpen == "!["

LitMid == "](data:image/"

LitB64 == ";base64,"

LitClose == ")"

\* The tokens that hold the character each group of the pattern excludes:
\* "]" for group 1, ";" for group 2, ")" for group 3.
HasRBracket == {"]", LitMid}

HasSemicolon == {";", LitB64}

HasRParen == {LitClose}

Min(S) == CHOOSE x \in S : \A y \in S : x <= y

\* Least index i >= from whose token is one of kinds; 0 when there is none.
FirstIdx(text, from, kinds) ==
  LET S == {i \in from..Len(text) : text[i].k \in kinds}
  IN  IF S = {} THEN 0 ELSE Min(S)

----------------------------------------------------------------------------
\* The pattern  ![ group1 ](data:image/ group2 ;base64, group3 )  where
\* group1 is any run without "]", group2 a non-empty run without ";" and
\* group3 a non-empty run without ")".

NoMatch == [ok |-> FALSE, start |-> 0, mid |-> 0, b64 |-> 0, end |-> 0]

\* The match of the pattern that starts exactly at position p, if any.
\* group(1) cannot contain "]", so it ends before the first "]", which has
\* to open "](data:image/"; group(2) is non-empty and ends before the first
\* ";", which has to open ";base64,"; group(3) is non-empty and ends before
\* the first ")".
MatchAt(text, p) ==
  IF p < 1 \/ p > Len(text) \/ text[p].k # LitOpen THEN NoMatch
  ELSE LET a == FirstIdx(text, p + 1, HasRBracket) IN
    IF a = 0 \/ text[a].k # LitMid THEN NoMatch
    ELSE LET f == FirstIdx(text, a + 1, HasSemicolon) IN
      IF f = 0 \/ f = a + 1 \/ text[f].k # LitB64 THEN NoMatch
      ELSE LET c == FirstIdx(text, f + 1, HasRParen) IN
        IF c = 0 \/ c = f + 1 THEN NoMatch
        ELSE [ok |-> TRUE, start |-> p, mid |-> a, b64 |-> f, end |-> c]

\* re.sub's search: the leftmost match starting at or after position from.
Search(text, from) ==
  LET S == {p \in from..Len(text) : MatchAt(text, p).ok}
  IN  IF S = {} THEN NoMatch ELSE MatchAt(text, Min(S))

group0(text, m) == SubSeq(text, m.start, m.end)

group1(text, m) == SubSeq(text, m.start + 1, m.mid - 1)

group2(text, m) == SubSeq(text, m.mid + 1, m.b64 - 1)

group3(text, m) == SubSeq(text, m.b64 + 1, m.end - 1)

----------------------------------------------------------------------------
(* base64, sizes, formats *)

NoBytes == [len |-> 0, w |-> 0, h |-> 0]

\* base64.b64decode(base64_data): the bytes, or binascii.Error.  A payload
\* of several tokens stands for a base64 string followed by characters that
\* break its padding.
b64decode(payload) ==
  IF Len(payload) = 1 /\ payload[1].k = "b64"
  THEN [exc |-> FALSE,
        data |-> [len |-> payload[1].len, w |-> payload[1].w, h |-> payload[1].h]]
  ELSE [exc |-> TRUE, data |-> NoBytes]

\* base64.b64encode(new_image_data).decode('utf-8')
b64encode(data) == [k |-> "b64", len |-> data.len, w |-> data.w, h |-> data.h]

\* size_kb <= max_size_kb, with size_kb = n / 1024 (true division; the
\* division by a power of two is exact, so this is n <= 1024 * max_size_kb).
UnderLimit(n, limit) == n <= limit * KB

\* Image.open(io.BytesIO(image_data)) succeeds iff the bytes hold an image.
IsImage(data) == data.w > 0 /\ data.h > 0

\* str.upper() on a format tag.
Upper(tag) ==
  CASE tag = <<T("png")>> -> "PNG"
    [] tag = <<T("jpg")>> -> "JPG"
    [] tag = <<T("jpeg")>> -> "JPEG"
    [] OTHER -> "OTHER"

\* save_format = image_format.upper(); 'JPG' becomes 'JPEG'.
SaveFormat(image_format) ==
  LET save_format == Upper(image_format)
  IN  IF save_format = "JPG" THEN "JPEG" ELSE save_format

\* The formats Image.save has an encoder for; any other name is a KeyError.
Registered == {"PNG", "JPEG"}

\* int(d * scale_factor), scale_factor = num / den.  The code multiplies
\* doubles; for the five scale factors and any dimension below 2^31 the
\* truncated product equals this exact quotient.
Scaled(d, num, den) == (d * num) \div den

\* f'![{alt_text}](data:image/{image_format};base64,{new_base64_data})'
Block(alt_text, image_format, base64_data) ==
  <<T(LitOpen)>> \o alt_text \o <<T(LitMid)>> \o image_format
    \o <<T(LitB64)>> \o base64_data \o <<T(LitClose)>>

----------------------------------------------------------------------------
(* Request parameters and Python's int() *)

\* A parameter value: a string (its characters in s), a JSON integer (n), a
\* JSON float (n, in tenths), a JSON float too large for a double ("inf",
\* such as 1e999), or JSON null.
Val(t, s, n) == [t |-> t, s |-> s, n |-> n]

Str(s) == Val("str", s, 0)

Digits == {"0", "1", "2", "3", "4", "5", "6", "7", "8", "9"}

DigitVal(c) ==
  CASE c = "0" -> 0 [] c = "1" -> 1 [] c = "2" -> 2 [] c = "3" -> 3
    [] c = "4" -> 4 [] c = "5" -> 5 [] c = "6" -> 6 [] c = "7" -> 7
    [] c = "8" -> 8 [] c = "9" -> 9

RECURSIVE Decimal(_)
Decimal(s) ==
  IF s = <<>> THEN 0
  ELSE 10 * Decimal(SubSeq(s, 1, Len(s) - 1)) + DigitVal(s[Len(s)])

\* int(s) for a string: an optional sign and decimal digits, else ValueError.
IntOfStr(s) ==
  LET neg == s # <<>> /\ s[1] = "-"
      body == IF neg THEN Tail(s) ELSE s
  IN  IF body # <<>> /\ \A i \in 1..Len(body) : body[i] \in Digits
      THEN [exc |-> "", val |-> IF neg THEN 0 - Decimal(body) ELSE Decimal(body)]
      ELSE [exc |-> "ValueError", val |-> 0]

\* int(v): parses a string, keeps an integer, truncates a float toward zero,
\* raises OverflowError for an infinite float and TypeError for None.
PyInt(v) ==
  CASE v.t = "str" -> IntOfStr(v.s)
    [] v.t = "int" -> [exc |-> "", val |-> v.n]
    [] v.t = "float" ->
         [exc |-> "", val |-> IF v.n >= 0 THEN v.n \div 10 ELSE 0 - ((0 - v.n) \div 10)]
    [] v.t = "inf" -> [exc |-> "OverflowError", val |-> 0]
    [] OTHER -> [exc |-> "TypeError", val |-> 0]

\* The default '200' of request.form.get and 200 of data.get.
FormDefault == Str(<<"2", "0", "0">>)

JsonDefault == Val("int", <<>>, DefaultMaxSizeKB)

\* max_size_kb as sent in a form field (always a string).
FormValues ==
  {Str(<<"a", "b", "c">>), Str(<<"1", ".", "5">>), Str(<<"0">>)}

\* max_size_kb as sent in a JSON body.
JsonValues ==
  {Str(<<"a", "b", "c">>), Val("int", <<>>, 1), Val("float", <<>>, 2005),
   Val("inf", <<>>, 0), Val("null", <<>>, 0)}

Request(endpoint, has_file, filename, body, has_text, has_max, max) ==
  [endpoint |-> endpoint, has_file |-> has_file, filename |-> filename,
   body |-> body, has_text |-> has_text, has_max |-> has_max, max |-> max]

NoRequest == Request("", FALSE, "", "", FALSE, FALSE, FormDefault)

\* POST /convert: multipart form, with or without a file part.
FileRequests ==
  {Request("/convert", f[1], f[2], "", FALSE, TRUE, v) :
     f \in {<<FALSE, "">>, <<TRUE, "">>, <<TRUE, "a.docx">>}, v \in FormValues}
  \cup {Request("/convert", f[1], f[2], "", FALSE, FALSE, FormDefault) :
     f \in {<<FALSE, "">>, <<TRUE, "">>, <<TRUE, "a.docx">>}}

\* POST /convert_text: a body that is not JSON ("malformed"), an empty
\* JSON object ("empty") or a JSON object with fields ("object").
TextRequests ==
  {Request("/convert_text", FALSE, "", "malformed", FALSE, FALSE, JsonDefault),
   Request("/convert_text", FALSE, "", "empty", FALSE, FALSE, JsonDefault)}
  \cup {Request("/convert_text", FALSE, "", "object", t, TRUE, v) :
     t \in BOOLEAN, v \in JsonValues}
  \cup {Request("/convert_text", FALSE, "", "object", TRUE, FALSE, JsonDefault)}

Response(status, json, error, body) ==
  [status |-> status, json |-> json, error |-> error, body |-> body]

NoResponse == Response(0, FALSE, "", <<>>)

----------------------------------------------------------------------------
(* Documents the converter can return *)

Img(len, w, h) == [k |-> "b64", len |-> len, w |-> w, h |-> h]

Fragments ==
  { <<T("x")>>, <<T(LitOpen)>>,
    \* one byte more than 2 KB, a 10 x 5 image, with text around it
    <<T("x")>> \o Block(<<T("x")>>, <<T("jpg")>>, <<Img(2 * KB + 1, 10, 5)>>)
      \o <<T("x")>>,
    \* exactly 1 KB
    Block(<<T("x")>>, <<T("png")>>, <<Img(KB, 8, 8)>>),
    \* a tag Image.save has no encoder for
    Block(<<>>, <<T("svg+xml")>>, <<Img(2 * KB + 1, 10, 5)>>),
    \* a 3 x 2 image: its fourth resize has height 0
    Block(<<>>, <<T("png")>>, <<Img(2 * KB + 1, 3, 2)>>),
    \* bytes that are no image
    Block(<<>>, <<T("png")>>, <<Img(2 * KB + 1, 0, 0)>>),
    \* base64 with incorrect padding
    Block(<<>>, <<T("jpeg")>>, <<T("b64bad")>>),
    \* no closing parenthesis, empty format, empty payload
    <<T(LitOpen), T(LitMid), T("png"), T(LitB64), Img(2 * KB + 1, 10, 5)>>,
    <<T(LitOpen), T(LitMid), T(LitB64), Img(2 * KB + 1, 10, 5), T(LitClose)>>,
    <<T(LitOpen), T(LitMid), T("png"), T(LitB64), T(LitClose)>> }

RECURSIVE Flatten(_)
Flatten(ss) == IF ss = <<>> THEN <<>> ELSE Head(ss) \o Flatten(Tail(ss))

Docs == UNION {{Flatten(ss) : ss \in [1..n -> Fragments]} : n \in 0..MaxPieces}

\* Byte lengths Image.save may produce for a resized image.
EncSizes == {KB, KB + 1}

----------------------------------------------------------------------------
(* State *)

VARIABLES
  PIL_AVAILABLE,     \* set once, when the module is imported
  pc,                \* where the request in hand is: "idle", "convert",
                     \* "resize", "sub", "loop", "respond"
  request,           \* the request in hand (the last one, when idle)
  response,          \* the response to it, NoResponse until it is sent
  called,            \* what the request has invoked so far: convert is "",
                     \* "raised" or "returned" (md.convert_stream), resize
                     \* and returned tell that resize_base64_images was
                     \* called and that it has returned
  markdown_content,  \* argument of resize_base64_images
  max_size_kb,       \* the parsed size limit
  pos,               \* re.sub: where the search for the next match starts
  out,               \* re.sub: the result assembled so far
  cur,               \* resize_image_match: the match in hand and its locals
  tries,             \* the sizes the latest match was resized to, in order
  new_image_data,    \* what the latest resize attempt saved
  last,              \* how the callback returned for the latest match
  log                \* the spans re.sub has replaced so far

vars ==
  <<PIL_AVAILABLE, pc, request, response, called, markdown_content,
    max_size_kb, pos, out, cur, tries, new_image_data, last, log>>

NotCalled == [convert |-> "", resize |-> FALSE, returned |-> FALSE]

NoCur ==
  [m |-> NoMatch, image |-> NoBytes, num |-> ScaleNum, den |-> ScaleDen, it |-> 0]

\* The record kept of the latest return of resize_image_match: the match,
\* the decoded size (-1 when b64decode raised), whether Image.open was
\* called, the number of resize attempts, how the callback returned ("under",
\* "error", "fit", "exhausted") and what it returned.
Returned(m, decoded, opened, attempts, how, repl) ==
  [m |-> m, decoded |-> decoded, opened |-> opened, attempts |-> attempts,
   how |-> how, repl |-> repl]

NoReturn == Returned(NoMatch, 0, FALSE, 0, "", <<>>)

\* The outcome of resized_image.save: an exception, or the bytes written.
Saved(exc, len, size) == [exc |-> exc, len |-> len, w |-> size[1], h |-> size[2]]

NotSaved == Saved(FALSE, 0, <<0, 0>>)

Init ==
  /\ PIL_AVAILABLE \in BOOLEAN
  /\ pc = "idle"
  /\ request = NoRequest
  /\ response = NoResponse
  /\ called = NotCalled
  /\ markdown_content = <<>>
  /\ max_size_kb = DefaultMaxSizeKB
  /\ pos = 1
  /\ out = <<>>
  /\ cur = NoCur
  /\ tries = <<>>
  /\ new_image_data = NotSaved
  /\ last = NoReturn
  /\ log = <<>>

----------------------------------------------------------------------------
(* The handlers, up to the call of the converter *)

\* A new request finds nothing of the previous one.
Fresh(r) ==
  /\ pc = "idle"
  /\ request' = r
  /\ called' = NotCalled
  /\ markdown_content' = <<>>
  /\ pos' = 1
  /\ out' = <<>>
  /\ cur' = NoCur
  /\ tries' = <<>>
  /\ new_image_data' = NotSaved
  /\ last' = NoReturn
  /\ log' = <<>>
  /\ UNCHANGED PIL_AVAILABLE

\* return jsonify({...}), status: the handler is done.
Reply(status, error) ==
  /\ response' = Response(status, TRUE, error, <<>>)
  /\ pc' = "idle"

\* The request goes on to md.convert_stream with the parsed limit.
Proceed(limit) ==
  /\ response' = NoResponse
  /\ max_size_kb' = limit
  /\ pc' = "convert"

\* int(request.form.get('max_size_kb', '200')) under except ValueError.
FormLimit(r) == PyInt(IF r.has_max THEN r.max ELSE FormDefault)

\* int(data.get('max_size_kb', 200)) under except (ValueError, TypeError).
JsonLimit(r) == PyInt(IF r.has_max THEN r.max ELSE JsonDefault)

convert_file ==
  \E r \in FileRequests :
    /\ Fresh(r)
    /\ IF ~r.has_file
       THEN Reply(400, "No file provided") /\ UNCHANGED max_size_kb
       ELSE IF r.filename = ""
       THEN Reply(400, "No file selected") /\ UNCHANGED max_size_kb
       ELSE IF FormLimit(r).exc = "ValueError"
       THEN Reply(400, "max_size_kb must be a valid integer") /\ UNCHANGED max_size_kb
       ELSE IF FormLimit(r).exc # ""
       THEN Reply(500, FormLimit(r).exc) /\ UNCHANGED max_size_kb
       ELSE Proceed(FormLimit(r).val)

convert_text ==
  \E r \in TextRequests :
    /\ Fresh(r)
    /\ IF r.body = "malformed"
       THEN Reply(500, "BadRequest") /\ UNCHANGED max_size_kb
       ELSE IF r.body = "empty" \/ ~r.has_text
       THEN Reply(400, "No text content provided") /\ UNCHANGED max_size_kb
       ELSE IF JsonLimit(r).exc \in {"ValueError", "TypeError"}
       THEN Reply(400, "max_size_kb must be a valid integer") /\ UNCHANGED max_size_kb
       ELSE IF JsonLimit(r).exc # ""
       THEN Reply(500, JsonLimit(r).exc) /\ UNCHANGED max_size_kb
       ELSE Proceed(JsonLimit(r).val)

----------------------------------------------------------------------------
(* md.convert_stream: external; it raises or returns a document *)

\* Faulty variant: the failure is swallowed and the pipeline goes on with
\* an empty text.
OnConvertError_Continue ==
  /\ markdown_content' = <<>>
  /\ pc' = "resize"
  /\ UNCHANGED response

\* What the handler does when md.convert_stream raises: except Exception.
OnConvertError ==
  /\ response' = Response(500, TRUE, "conversion failed", <<>>)
  /\ pc' = "idle"
  /\ UNCHANGED markdown_content

\* What the handler does with result.text_content: it calls
\* resize_base64_images(result.text_content, max_size_kb).
OnConverted(text_content) ==
  /\ markdown_content' = text_content
  /\ pc' = "resize"
  /\ UNCHANGED response

convert_raises ==
  /\ pc = "convert"
  /\ called' = [called EXCEPT !.convert = "raised"]
  /\ OnConvertError
  /\ UNCHANGED <<PIL_AVAILABLE, request, max_size_kb, pos, out, cur, tries,
                 new_image_data, last, log>>

convert_returns ==
  /\ pc = "convert"
  /\ called' = [called EXCEPT !.convert = "returned"]
  /\ \E text_content \in Docs : OnConverted(text_content)
  /\ UNCHANGED <<PIL_AVAILABLE, request, max_size_kb, pos, out, cur, tries,
                 new_image_data, last, log>>

----------------------------------------------------------------------------
(* resize_base64_images *)

\* Faulty variant: the guard is missing.
Disabled_Never == FALSE

\* if not PIL_AVAILABLE: return markdown_content
Disabled == ~PIL_AVAILABLE

\* The call: without PIL the text is returned as it is; with PIL re.sub
\* starts at the beginning of the text.
resize_base64_images ==
  /\ pc = "resize"
  /\ IF Disabled
     THEN /\ out' = markdown_content
          /\ called' = [called EXCEPT !.resize = TRUE, !.returned = TRUE]
          /\ pc' = "respond"
     ELSE /\ out' = <<>>
          /\ called' = [called EXCEPT !.resize = TRUE]
          /\ pc' = "sub"
  /\ UNCHANGED <<PIL_AVAILABLE, request, response, markdown_content,
                 max_size_kb, pos, cur, tries, new_image_data, last, log>>

\* The span of a match in the input, and where its replacement lies in the
\* output.
Span(m, repl) ==
  [start |-> m.start, end |-> m.end,
   at |-> Len(out) + (m.start - pos) + 1, n |-> Len(repl)]

\* Faulty variant: the scan resumes on the last character of the match.
Resume_AtEnd(m) == m.end

\* Where re.sub resumes after a match.
Resume(m) == m.end + 1

\* re.sub puts the text before the match and the callback's return value
\* into the result and searches on after the match.
Substitute(m, repl, entry) ==
  /\ out' = out \o SubSeq(markdown_content, pos, m.start - 1) \o repl
  /\ pos' = Resume(m)
  /\ log' = Append(log, Span(m, repl))
  /\ last' = entry
  /\ cur' = NoCur
  /\ pc' = "sub"
  /\ UNCHANGED called

\* Faulty variant: a failed match is dropped from the output.
PassThrough_Drop(m, decoded, opened, attempts, how) ==
  IF how = "error"
  THEN Substitute(m, <<>>, Returned(m, decoded, opened, attempts, how, <<>>))
  ELSE Substitute(m, group0(markdown_content, m),
                  Returned(m, decoded, opened, attempts, how,
                           group0(markdown_content, m)))

\* return match.group(0)
PassThrough(m, decoded, opened, attempts, how) ==
  Substitute(m, group0(markdown_content, m),
             Returned(m, decoded, opened, attempts, how, group0(markdown_content, m)))

\* Faulty variant: size_kb < max_size_kb, so the boundary goes to the loop.
WithinLimit_Strict(image_data) == image_data.len < max_size_kb * KB

\* if size_kb <= max_size_kb: return match.group(0)
WithinLimit(image_data) == UnderLimit(image_data.len, max_size_kb)

\* One step of re.sub: no further match ends the call; a match enters
\* resize_image_match, which returns at once or enters the shrink loop.
sub ==
  /\ pc = "sub"
  /\ LET m == Search(markdown_content, pos)
         d == b64decode(group3(markdown_content, m))
     IN  IF ~m.ok
         THEN /\ out' = out \o SubSeq(markdown_content, pos, Len(markdown_content))
              /\ pos' = Len(markdown_content) + 1
              /\ called' = [called EXCEPT !.returned = TRUE]
              /\ pc' = "respond"
              /\ UNCHANGED <<cur, tries, new_image_data, last, log>>
         ELSE /\ tries' = <<>>
              /\ new_image_data' = NotSaved
              /\ IF d.exc
                 THEN PassThrough(m, -1, FALSE, 0, "error")
                 ELSE IF WithinLimit(d.data)
                 THEN PassThrough(m, d.data.len, FALSE, 0, "under")
                 ELSE IF ~IsImage(d.data)
                 THEN PassThrough(m, d.data.len, TRUE, 0, "error")
                 ELSE /\ cur' = [m |-> m, image |-> d.data, num |-> ScaleNum,
                                 den |-> ScaleDen, it |-> 1]
                      /\ pc' = "loop"
                      /\ UNCHANGED <<pos, out, last, log, called>>
  /\ UNCHANGED <<PIL_AVAILABLE, request, response, markdown_content, max_size_kb>>

\* What resized_image.save can do: raise (no encoder for the format, or the
\* encoder rejects the image), or write some number of bytes.
SaveOutcomes(save_format, size) ==
  {Saved(TRUE, 0, size)} \cup
  (IF save_format \in Registered
   THEN {Saved(FALSE, n, size) : n \in EncSizes} ELSE {})

\* Faulty variant: each attempt resizes the previous attempt's result.
NewSize_FromPrevious(c) ==
  IF tries = <<>>
  THEN <<Scaled(c.image.w, ScaleNum, ScaleDen), Scaled(c.image.h, ScaleNum, ScaleDen)>>
  ELSE <<Scaled(tries[Len(tries)][1], ScaleNum, ScaleDen),
         Scaled(tries[Len(tries)][2], ScaleNum, ScaleDen)>>

\* new_width, new_height of the attempt in hand.
NewSize(c) ==
  <<Scaled(c.image.w, c.num, c.den), Scaled(c.image.h, c.num, c.den)>>

\* Faulty variant: the best effort is emitted whatever its size.
Fits_Always(saved) == TRUE

\* if new_size_kb <= max_size_kb
Fits(saved) == UnderLimit(saved.len, max_size_kb)

\* Faulty variant: the new data URI is tagged with the save format.
EmittedFormat_Normalized(m) ==
  IF SaveFormat(group2(markdown_content, m)) = "JPEG"
  THEN <<T("jpeg")>> ELSE group2(markdown_content, m)

\* The tag written into the new data URI: {image_format}.
EmittedFormat(m) == group2(markdown_content, m)

\* The alt text written into the new data URI: {alt_text}.
EmittedAlt(m) == group1(markdown_content, m)

\* Faulty variant: while True.
LastIteration_Never(c) == FALSE

\* The for loop is over after max_iterations iterations.
LastIteration(c) == c.it >= max_iterations

\* One iteration of the shrink loop: resize, save, measure; return the new
\* block on a fit, the original on an exception or after the last iteration.
loop ==
  /\ pc = "loop"
  /\ LET m == cur.m
         size == NewSize(cur)
         n == Len(tries) + 1
     IN  /\ tries' = Append(tries, size)
         /\ IF size[1] < 1 \/ size[2] < 1
            THEN \* image.resize raises ValueError
                 /\ new_image_data' = Saved(TRUE, 0, size)
                 /\ PassThrough(m, cur.image.len, TRUE, n, "error")
            ELSE \E saved \in SaveOutcomes(SaveFormat(group2(markdown_content, m)), size) :
                 LET repl == Block(EmittedAlt(m), EmittedFormat(m), <<b64encode(saved)>>)
                 IN  /\ new_image_data' = saved
                     /\ IF saved.exc
                        THEN PassThrough(m, cur.image.len, TRUE, n, "error")
                        ELSE IF Fits(saved)
                        THEN Substitute(m, repl,
                               Returned(m, cur.image.len, TRUE, n, "fit", repl))
                        ELSE IF LastIteration(cur)
                        THEN PassThrough(m, cur.image.len, TRUE, n, "exhausted")
                        ELSE /\ cur' = [cur EXCEPT !.it = @ + 1,
                                                   !.num = @ * ScaleNum,
                                                   !.den = @ * ScaleDen]
                             /\ UNCHANGED <<pc, pos, out, last, log, called>>
  /\ UNCHANGED <<PIL_AVAILABLE, request, response, markdown_content, max_size_kb>>

\* return markdown_content, 200
respond ==
  /\ pc = "respond"
  /\ response' = Response(200, FALSE, "", out)
  /\ pc' = "idle"
  /\ UNCHANGED <<PIL_AVAILABLE, request, called, markdown_content, max_size_kb,
                 pos, out, cur, tries, new_image_data, last, log>>

Next ==
  \/ convert_file
  \/ convert_text
  \/ convert_raises
  \/ convert_returns
  \/ resize_base64_images
  \/ sub
  \/ loop
  \/ respond

Spec == Init /\ [][Next]_vars

----------------------------------------------------------------------------
(* Properties *)

\* The i-th matched block as it was in the input and as it is in the output.
InBlock(i) == SubSeq(markdown_content, log[i].start, log[i].end)

OutBlock(i) == SubSeq(out, log[i].at, log[i].at + log[i].n - 1)

\* A block is a data URI image: the pattern matches all of it.
IsDataURI(block) ==
  MatchAt(block, 1).ok /\ MatchAt(block, 1).end = Len(block)

AltOf(block) == SubSeq(block, 2, MatchAt(block, 1).mid - 1)

TagOf(block) == SubSeq(block, MatchAt(block, 1).mid + 1, MatchAt(block, 1).b64 - 1)

PayloadOf(block) ==
  SubSeq(block, MatchAt(block, 1).b64 + 1, MatchAt(block, 1).end - 1)

\* The payload is one well-formed base64 string.
Decodes(block) == Len(PayloadOf(block)) = 1 /\ PayloadOf(block)[1].k = "b64"

\* Its decoded size in bytes.
DecodedLen(block) == PayloadOf(block)[1].len

OverBudget(block) == Decodes(block) /\ DecodedLen(block) > max_size_kb * KB

AtOrBelowBudget(block) == Decodes(block) /\ DecodedLen(block) <= max_size_kb * KB

\* The latest match has returned from the callback and is the last of log.
HasLast == last.m.ok /\ log # <<>>

LastIn == InBlock(Len(log))

LastOut == OutBlock(Len(log))

\* The elements of seq at the positions from i on that are not in S.
RECURSIVE Keep(_, _, _)
Keep(seq, S, i) ==
  IF i > Len(seq) THEN <<>>
  ELSE (IF i \in S THEN <<>> ELSE <<seq[i]>>) \o Keep(seq, S, i + 1)

InSpans == UNION {log[i].start .. log[i].end : i \in DOMAIN log}

OutSpans == UNION {log[i].at .. (log[i].at + log[i].n - 1) : i \in DOMAIN log}

RECURSIVE Pow(_, _)
Pow(b, e) == IF e = 0 THEN 1 ELSE b * Pow(b, e - 1)

\* C1: every matched block whose decoded payload exceeds max_size_kb is, in
\* the output, either identical to the original or a data URI whose decoded
\* payload is at most max_size_kb; when the loop runs out after its 5
\* attempts the original is returned.
C1_ConvergenceOrFailSafe ==
  /\ \A i \in DOMAIN log :
       OverBudget(InBlock(i)) =>
         \/ OutBlock(i) = InBlock(i)
         \/ /\ IsDataURI(OutBlock(i))
            /\ Decodes(OutBlock(i))
            /\ DecodedLen(OutBlock(i)) <= max_size_kb * KB
  /\ (HasLast /\ last.how = "exhausted") =>
       /\ last.attempts = max_iterations
       /\ last.repl = LastIn
       /\ LastOut = LastIn

\* An over-budget block has been replaced by a smaller one, and a later
\* block in the same document has run out of attempts.
C1_Witness ==
  /\ Len(log) = 2
  /\ OverBudget(InBlock(1))
  /\ OutBlock(1) # InBlock(1)
  /\ last.how = "exhausted"
  /\ response.status = 200

\* C2: a matched block whose decoded payload is at most max_size_kb (the
\* boundary included) is unchanged in the output, is never opened as an
\* image and never resized; a document all of whose blocks are at or below
\* the limit is returned unchanged.
C2_UnderBudgetUntouched ==
  /\ \A i \in DOMAIN log :
       AtOrBelowBudget(InBlock(i)) => OutBlock(i) = InBlock(i)
  /\ (HasLast /\ AtOrBelowBudget(LastIn)) =>
       /\ ~last.opened
       /\ last.attempts = 0
       /\ last.repl = LastIn
  /\ (pc = "loop") => ~AtOrBelowBudget(group0(markdown_content, cur.m))
  /\ (response.status = 200 /\ \A i \in DOMAIN log : AtOrBelowBudget(InBlock(i)))
       => response.body = markdown_content

\* A block of exactly max_size_kb KB has passed through, with PIL available.
C2_Witness ==
  /\ PIL_AVAILABLE
  /\ HasLast
  /\ Decodes(LastIn)
  /\ DecodedLen(LastIn) = max_size_kb * KB
  /\ max_size_kb > 0
  /\ response.status = 200

\* C3: the matches are found left to right and do not overlap, each
\* replacement lies in the output where its match lay in the input (shifted
\* by the earlier replacements), and the text outside the matches is the
\* same, in the same order, in the input scanned so far and in the output.
C3_OutsideTextPreserved ==
  /\ \A i \in DOMAIN log :
       /\ MatchAt(markdown_content, log[i].start).ok
       /\ MatchAt(markdown_content, log[i].start).end = log[i].end
       /\ i > 1 => log[i - 1].end < log[i].start
       /\ log[i].at - log[i].start =
            IF i = 1 THEN 0
            ELSE (log[i - 1].at + log[i - 1].n) - (log[i - 1].end + 1)
  /\ PIL_AVAILABLE =>
       Keep(out, OutSpans, 1)
         = Keep(SubSeq(markdown_content, 1, pos - 1), InSpans, 1)
  /\ response.status = 200 =>
       Keep(response.body, OutSpans, 1) = Keep(markdown_content, InSpans, 1)

\* A response whose document had text before, between and after two
\* matches, one of which was replaced.
C3_Witness ==
  /\ response.status = 200
  /\ Len(log) = 2
  /\ response.body # markdown_content
  /\ log[1].start > 1
  /\ log[2].start > log[1].end + 1
  /\ log[2].end < Len(markdown_content)

\* C4: every matched block is a data URI image in the output with the alt
\* text and the format tag it had in the input, replaced or not.
C4_TagPreserved ==
  \A i \in DOMAIN log :
    /\ IsDataURI(OutBlock(i))
    /\ TagOf(OutBlock(i)) = TagOf(InBlock(i))
    /\ AltOf(OutBlock(i)) = AltOf(InBlock(i))

\* A block tagged jpg, with a non-empty alt text, has been replaced.
C4_Witness ==
  /\ HasLast
  /\ last.how = "fit"
  /\ TagOf(LastIn) = <<T("jpg")>>
  /\ AltOf(LastIn) # <<>>
  /\ LastOut # LastIn

\* C5: a match whose processing fails (b64decode, Image.open, resize or
\* save raises) is returned unchanged; the failure leaves nothing behind in
\* the callback's locals, the scan goes on after the match, what a match
\* is replaced by is determined by that match and the limit alone, and a
\* request that has called resize_base64_images is always answered with 200.
C5_ErrorIsolation ==
  /\ (HasLast /\ last.how = "error") =>
       /\ last.repl = LastIn
       /\ LastOut = LastIn
  /\ (HasLast /\ ~Decodes(LastIn)) => last.how = "error"
  /\ (HasLast /\ OverBudget(LastIn) /\ PayloadOf(LastIn)[1].w = 0) =>
       last.how = "error"
  /\ (HasLast /\ pc = "sub") =>
       /\ cur = NoCur
       /\ pos = last.m.end + 1
  /\ HasLast =>
       \/ last.repl = LastIn
       \/ \E i \in 1..max_iterations, n \in EncSizes :
            /\ n <= max_size_kb * KB
            /\ last.repl =
                 Block(AltOf(LastIn), TagOf(LastIn),
                       <<Img(n, (PayloadOf(LastIn)[1].w * Pow(4, i)) \div Pow(5, i),
                                (PayloadOf(LastIn)[1].h * Pow(4, i)) \div Pow(5, i))>>)
  /\ (called.resize /\ pc = "idle") =>
       /\ response.status = 200
       /\ ~response.json
       /\ called.returned

\* The first block failed to decode and the second was still replaced.
C5_Witness ==
  /\ response.status = 200
  /\ Len(log) = 2
  /\ ~Decodes(InBlock(1))
  /\ OutBlock(1) = InBlock(1)
  /\ last.how = "fit"

\* The request lacks what its endpoint requires, or its max_size_kb is not
\* an integer (nor a string that spells one).
SpellsInteger(v) ==
  \/ v.t = "int"
  \/ /\ v.t = "str"
     /\ v.s # <<>>
     /\ \A i \in 1..Len(v.s) : v.s[i] \in Digits

ShapeError(r) ==
  \/ /\ r.endpoint = "/convert"
     /\ (~r.has_file \/ r.filename = "" \/ (r.has_max /\ ~SpellsInteger(r.max)))
  \/ /\ r.endpoint = "/convert_text"
     /\ r.body # "malformed"
     /\ (r.body = "empty" \/ ~r.has_text \/ (r.has_max /\ ~SpellsInteger(r.max)))

\* C6: a request with a missing file, an empty filename, a missing text
\* field or a non-integer max_size_kb is answered with a 4xx JSON error and
\* calls neither the converter nor resize_base64_images.
C6_ShapeErrorsRejected ==
  ShapeError(request) =>
    /\ called.convert = ""
    /\ ~called.resize
    /\ pc = "idle"
    /\ response.status \in 400..499
    /\ response.json

\* C7: resize_base64_images is called only after md.convert_stream has
\* returned; when md.convert_stream raises, the response is a 5xx JSON
\* error with a message and resize_base64_images is not called; a 200 is
\* sent only after both have returned.
C7_PipelineOrder ==
  /\ called.convert = "raised" =>
       /\ pc = "idle"
       /\ response.status \in 500..599
       /\ response.json
       /\ response.error # ""
       /\ ~called.resize
       /\ ~called.returned
  /\ called.resize => called.convert = "returned"
  /\ called.returned => called.resize
  /\ pc \in {"resize", "sub", "loop", "respond"} => called.convert = "returned"
  /\ response.status = 200 =>
       /\ called.convert = "returned"
       /\ called.resize
       /\ called.returned

\* The converter raised and the request was answered with 500.
C7_Witness ==
  /\ called.convert = "raised"
  /\ response.status = 500
  /\ PIL_AVAILABLE

\* C8: without PIL, resize_base64_images returns its input unchanged in its
\* first step, whatever the text and the limit, the request is answered
\* with 200 and that text, and PIL_AVAILABLE never changes.
C8_NoPilIdentity ==
  /\ [](~PIL_AVAILABLE =>
          /\ log = <<>>
          /\ pc \notin {"sub", "loop"}
          /\ called.resize => (called.returned /\ out = markdown_content)
          /\ (called.resize /\ pc = "idle") => response.status = 200
          /\ response.status = 200 => response.body = markdown_content)
  /\ [][PIL_AVAILABLE' = PIL_AVAILABLE]_vars

\* Without PIL, a document with an over-budget image was returned as it was.
C8_Witness ==
  /\ ~PIL_AVAILABLE
  /\ response.status = 200
  /\ Search(markdown_content, 1).ok
  /\ OverBudget(group0(markdown_content, Search(markdown_content, 1)))
  /\ response.body = markdown_content

\* What is left to do of the call of resize_base64_images: the text not yet
\* scanned, weighted by the steps one match can take, plus the steps left
\* for the match in hand.
Work ==
  (Len(markdown_content) + 1 - pos) * (max_iterations + 2)
  + (IF pc = "sub" THEN max_iterations + 1
     ELSE IF pc = "loop" THEN max_iterations - Len(tries)
     ELSE 0)

\* C9: a match is resized at most max_iterations times, whatever the limit,
\* and then returns a replacement or the original; every step of the scan
\* and of the loop reduces the work left, which is never negative, so the
\* call terminates.
C9_BoundedRetry ==
  /\ [](/\ Len(tries) <= max_iterations
        /\ Work >= 0
        /\ pc = "loop" => (cur.it = Len(tries) + 1 /\ cur.it <= max_iterations)
        /\ HasLast =>
             /\ last.attempts <= max_iterations
             /\ last.how \in {"under", "error", "fit", "exhausted"}
             /\ last.how # "fit" => last.repl = LastIn)
  /\ [][(pc \in {"sub", "loop"}) => (Work' < Work)]_vars

\* With a limit of 0 KB a match has used all its attempts and was returned
\* as it was.
C9_Witness ==
  /\ max_size_kb <= 0
  /\ HasLast
  /\ last.how = "exhausted"
  /\ Len(tries) = max_iterations
  /\ LastOut = LastIn
  /\ response.status = 200

\* The match the attempts in tries were made for.
TriedMatch == IF pc = "loop" THEN cur.m ELSE last.m

\* C10: attempt i resizes the original image to floor(width * 0.8^i) by
\* floor(height * 0.8^i); the sizes never grow; the loop goes on only after
\* an attempt that saved more than max_size_kb, and stops at the first
\* attempt that fits, whose bytes are the ones emitted.
C10_FirstFitSchedule ==
  tries # <<>> =>
    LET m == TriedMatch
        w == markdown_content[m.b64 + 1].w
        h == markdown_content[m.b64 + 1].h
        n == Len(tries)
        fit == ~new_image_data.exc /\ new_image_data.len <= max_size_kb * KB
    IN  /\ \A i \in 1..n :
             tries[i] = <<(w * Pow(4, i)) \div Pow(5, i), (h * Pow(4, i)) \div Pow(5, i)>>
        /\ \A i \in 2..n :
             tries[i][1] <= tries[i - 1][1] /\ tries[i][2] <= tries[i - 1][2]
        /\ new_image_data.w = tries[n][1]
        /\ new_image_data.h = tries[n][2]
        /\ pc = "loop" => (~new_image_data.exc /\ ~fit /\ cur.it = n + 1)
        /\ pc # "loop" =>
             /\ HasLast
             /\ last.attempts = n
             /\ fit <=> last.how = "fit"
             /\ fit =>
                  /\ PayloadOf(LastOut) =
                       <<[k |-> "b64", len |-> new_image_data.len,
                          w |-> tries[n][1], h |-> tries[n][2]]>>
                  /\ DecodedLen(LastOut) <= max_size_kb * KB

\* The third attempt was the first to fit and was emitted.
C10_Witness ==
  /\ pc = "idle"
  /\ Len(tries) = 3
  /\ last.how = "fit"
  /\ tries[3][1] < tries[2][1]
  /\ response.status = 200

====
